---- MODULE Spec2Model ----
(***************************************************************************)
(* A model of src/app.py: the author-position resolver and the three graph *)
(* builders (citation, collaboration, enhanced citation).                  *)
(*                                                                         *)
(* Representation.                                                         *)
(*  - A string is the sequence of its code points ("10" is <<49, 48>>), so *)
(*    that str.strip, str.lower, int(str) and Python's string order are    *)
(*    computed, not assumed.                                               *)
(*  - An optional value (None, a missing cell) is a sequence of length at  *)
(*    most one: <<>> or <<v>>.                                             *)
(*  - A CSV cell is its text. pandas.read_csv turns the texts of na_values *)
(*    into NaN, and types the author_position column from its cells.       *)
(*  - impact_score is kept in tenths (an integer): 8 * citation_count + 20 *)
(*    stands for citation_count * 0.8 + 2.0.                               *)
(*  - Numbers are integers of at most nine digits; a finite float is a     *)
(*    decimal mantissa and a power of ten. Texts that denote larger        *)
(*    numbers are outside the inputs of the model.                         *)
(***************************************************************************)
EXTENDS Integers, Sequences, FiniteSets, TLC

VARIABLES
    refs_csv,      \* refs_yeshiva_cs_20_25.csv: [exists, rows]
    affils_csv,    \* affils_yeshiva_cs_20_25.csv: [exists, rows]
    position,      \* the raw value handed to clean_author_position
    last_call,     \* the operation that produced `result`
    result         \* <<>> before any call, then <<the value returned>>

vars == <<refs_csv, affils_csv, position, last_call, result>>

(***************************************************************************)
(* Strings                                                                 *)
(***************************************************************************)
\* Python's str comparison: lexicographic on code points.
StrLess(a, b) ==
    \E i \in 1..Len(b) :
        /\ \A j \in 1..(i - 1) : j <= Len(a) /\ a[j] = b[j]
        /\ (i > Len(a) \/ a[i] < b[i])

\* The characters of str.isspace(), which str.strip() removes: the ASCII
\* blanks and separators, U+0085, U+00A0, U+1680, U+2000..U+200A, U+2028,
\* U+2029, U+202F, U+205F, U+3000.
Whitespace ==
    (9..13) \cup (28..32) \cup {133, 160, 5760} \cup (8192..8202)
    \cup {8232, 8233, 8239, 8287, 12288}

\* The characters int(str) skips around the number: the same without the
\* separators U+001C..U+001F.
IntWhitespace == Whitespace \ (28..31)

SetMin(S) == CHOOSE x \in S : \A y \in S : x <= y
SetMax(S) == CHOOSE x \in S : \A y \in S : y <= x

\* s without its leading and trailing characters of `chars`
StripChars(s, chars) ==
    LET keep == {i \in 1..Len(s) : s[i] \notin chars}
    IN  IF keep = {} THEN <<>> ELSE SubSeq(s, SetMin(keep), SetMax(keep))

\* str.strip()
strip(s) == StripChars(s, Whitespace)

\* The characters whose str.lower() is the ASCII lower-case letter x: x, its
\* capital, and the Kelvin sign U+212A for "k".
LowersTo(x) == {x, x - 32} \cup (IF x = 107 THEN {8490} ELSE {})

\* s.lower() == w, for a word w of ASCII lower-case letters. (The lower()
\* of any other character holds a character that is not such a letter.)
lower_is(s, w) ==
    /\ Len(s) = Len(w)
    /\ \A i \in 1..Len(s) : s[i] \in LowersTo(w[i])

\* The zeros of the decimal digits int() accepts: "0" and the zero of every
\* other run of ten Unicode decimal digits (category Nd, Unicode 14.0, the
\* table of CPython 3.11).
DigitZeros ==
    {48, 1632, 1776, 1984, 2406, 2534, 2662, 2790, 2918, 3046, 3174, 3302,
     3430, 3558, 3664, 3792, 3872, 4160, 4240, 6112, 6160, 6470, 6608, 6784,
     6800, 6992, 7088, 7232, 7248, 42528, 43216, 43264, 43472, 43504, 43600,
     44016, 65296, 66720, 68912, 69734, 69872, 69942, 70096, 70384, 70736,
     70864, 71248, 71360, 71472, 71904, 72016, 72784, 73040, 73120, 92768,
     92864, 93008, 120782, 120792, 120802, 120812, 120822, 123200, 123632, 125264,
     130032}

Digits == UNION {z..(z + 9) : z \in DigitZeros}

DigitValue(c) == c - (CHOOSE z \in DigitZeros : c \in z..(z + 9))

\* int() refuses a text of more digits (sys.int_info.default_max_str_digits).
max_str_digits == 4300

\* The text int(str) accepts: optional whitespace, an optional sign, digits
\* with single underscores between digits.
IntBody(s) ==
    LET t == StripChars(s, IntWhitespace)
    IN  IF t # <<>> /\ t[1] \in {43, 45} THEN Tail(t) ELSE t

IsIntLiteral(s) ==
    LET b == IntBody(s)
    IN  /\ b # <<>>
        /\ \A i \in 1..Len(b) :
              \/ b[i] \in Digits
              \/ /\ b[i] = 95
                 /\ i > 1 /\ i < Len(b)
                 /\ b[i - 1] \in Digits /\ b[i + 1] \in Digits
        /\ Cardinality({i \in 1..Len(b) : b[i] \in Digits}) <= max_str_digits

RECURSIVE DigitsValue(_, _)
DigitsValue(b, acc) ==
    IF b = <<>> THEN acc
    ELSE IF Head(b) = 95 THEN DigitsValue(Tail(b), acc)
    ELSE DigitsValue(Tail(b), 10 * acc + DigitValue(Head(b)))

\* int(s) for a string s that IsIntLiteral
IntOfStr(s) ==
    LET t == StripChars(s, IntWhitespace)
        v == DigitsValue(IntBody(s), 0)
    IN  IF t[1] = 45 THEN 0 - v ELSE v

\* Named strings (code points)
S_middle == <<109, 105, 100, 100, 108, 101>>
S_mid == <<109, 105, 100>>
S_last == <<108, 97, 115, 116>>
S_corresponding == <<99, 111, 114, 114, 101, 115, 112, 111, 110, 100, 105, 110, 103>>
S_corr == <<99, 111, 114, 114>>
S_unknown == <<117, 110, 107, 110, 111, 119, 110>>
S_inf == <<105, 110, 102>>
S_tRuE == <<116, 82, 117, 69>>
S_Paper_ == <<80, 97, 112, 101, 114, 95>>
S_Author_ == <<65, 117, 116, 104, 111, 114, 95>>
S_1 == <<49>>
S_2 == <<50>>
S_9 == <<57>>
S_10 == <<49, 48>>

(***************************************************************************)
(* clean_author_position                                                   *)
(*                                                                         *)
(* A raw value is [t, n, e, s]:                                            *)
(*   t = "null"   None or NaN                                              *)
(*   t = "int"    the integer n                                            *)
(*   t = "bool"   True (n = 1) or False (n = 0)                            *)
(*   t = "float"  the finite float n * 10^e                                *)
(*   t = "inf"    float('inf') (n = 1) or float('-inf') (n = -1)           *)
(*   t = "str"    the string s                                             *)
(* The outcome is [exc, ret]: exc = <<>> and ret = <<n>> (an int) or <<>>  *)
(* (None) on return; exc = <<name>> when the call raises.                  *)
(***************************************************************************)
RawNull == [t |-> "null", n |-> 0, e |-> 0, s |-> <<>>]
RawInt(n) == [t |-> "int", n |-> n, e |-> 0, s |-> <<>>]
RawBool(b) == [t |-> "bool", n |-> IF b THEN 1 ELSE 0, e |-> 0, s |-> <<>>]
RawFloat(m, e) == [t |-> "float", n |-> m, e |-> e, s |-> <<>>]
RawInf(sign) == [t |-> "inf", n |-> sign, e |-> 0, s |-> <<>>]
RawStr(s) == [t |-> "str", n |-> 0, e |-> 0, s |-> s]

Returned(v) == [exc |-> <<>>, ret |-> v]
Raised(e) == [exc |-> <<e>>, ret |-> <<>>]

\* int(x) of the finite float x = m * 10^e: truncation toward zero
TruncFloat(m, e) ==
    LET a == IF m < 0 THEN 0 - m ELSE m
        q == IF e >= 0 THEN a * (10 ^ e)
             ELSE IF e < 0 - 9 THEN 0
             ELSE a \div (10 ^ (0 - e))
    IN  IF m < 0 THEN 0 - q ELSE q

clean_author_position(p) ==
    IF p.t = "null" THEN Returned(<<>>)                    \* pd.isna(position)
    ELSE IF p.t \in {"int", "bool"} THEN Returned(<<p.n>>) \* int(position)
    ELSE IF p.t = "float" THEN Returned(<<TruncFloat(p.n, p.e)>>)
    ELSE IF p.t = "inf" THEN Raised("OverflowError")       \* not in the except clause
    ELSE IF IsIntLiteral(p.s) THEN Returned(<<IntOfStr(p.s)>>)
    ELSE LET stripped == strip(p.s)                        \* except (ValueError, TypeError)
             position_str_in(words) == \E w \in words : lower_is(stripped, w)
         IN  IF position_str_in({S_middle, S_mid}) THEN Returned(<<2>>)
             ELSE IF position_str_in({S_last, S_corresponding, S_corr})
                  THEN Returned(<<0 - 1>>)
             ELSE Returned(<<>>)

(***************************************************************************)
(* pandas helpers                                                          *)
(***************************************************************************)
\* read_csv's default na_values (pandas 2: the list includes "None").
na_values ==
    { <<>>,                                                \* ""
      <<35, 78, 47, 65>>,                                  \* "#N/A"
      <<35, 78, 47, 65, 32, 78, 47, 65>>,                  \* "#N/A N/A"
      <<35, 78, 65>>,                                      \* "#NA"
      <<45, 49, 46, 35, 73, 78, 68>>,                      \* "-1.#IND"
      <<45, 49, 46, 35, 81, 78, 65, 78>>,                  \* "-1.#QNAN"
      <<45, 78, 97, 78>>,                                  \* "-NaN"
      <<45, 110, 97, 110>>,                                \* "-nan"
      <<49, 46, 35, 73, 78, 68>>,                          \* "1.#IND"
      <<49, 46, 35, 81, 78, 65, 78>>,                      \* "1.#QNAN"
      <<60, 78, 65, 62>>,                                  \* "<NA>"
      <<78, 47, 65>>,                                      \* "N/A"
      <<78, 65>>,                                          \* "NA"
      <<78, 85, 76, 76>>,                                  \* "NULL"
      <<78, 97, 78>>,                                      \* "NaN"
      <<78, 111, 110, 101>>,                               \* "None"
      <<110, 47, 97>>,                                     \* "n/a"
      <<110, 97, 110>>,                                    \* "nan"
      <<110, 117, 108, 108>> }                             \* "null"

\* A str-typed cell as read_csv loads it: NaN (<<>>) or <<text>>.
LoadStr(text) == IF text \in na_values THEN <<>> ELSE <<text>>

\* The blanks and digits of read_csv's number parsers (ASCII only).
AsciiSpace == (9..13) \cup {32}
AsciiDigits == 48..57

AllAsciiDigits(s) == \A i \in 1..Len(s) : s[i] \in AsciiDigits

\* A cell the int64 parser accepts: blanks, an optional sign, digits, blanks.
IsInt64Text(text) ==
    LET t == StripChars(text, AsciiSpace)
        b == IF t # <<>> /\ t[1] \in {43, 45} THEN Tail(t) ELSE t
    IN  b # <<>> /\ AllAsciiDigits(b)

\* A cell as the float64 parser reads it: blanks, an optional sign, digits
\* with an optional point, an optional exponent (e or E, an optional sign,
\* digits), blanks. ok: the cell is accepted; its value is m * 10^e.
FloatParts(text) ==
    LET t == StripChars(text, AsciiSpace)
        b == IF t # <<>> /\ t[1] \in {43, 45} THEN Tail(t) ELSE t
        es == {i \in 1..Len(b) : b[i] \in {69, 101}}
        epos == IF es = {} THEN Len(b) + 1 ELSE SetMin(es)
        mant == SubSeq(b, 1, epos - 1)
        ds == {i \in 1..Len(mant) : mant[i] = 46}
        dpos == IF ds = {} THEN Len(mant) + 1 ELSE SetMin(ds)
        ip == SubSeq(mant, 1, dpos - 1)
        fp == SubSeq(mant, dpos + 1, Len(mant))
        ex == SubSeq(b, epos + 1, Len(b))
        ed == IF ex # <<>> /\ ex[1] \in {43, 45} THEN Tail(ex) ELSE ex
        ok == /\ AllAsciiDigits(ip) /\ AllAsciiDigits(fp)
              /\ Len(ip) + Len(fp) >= 1
              /\ epos <= Len(b) => (ed # <<>> /\ AllAsciiDigits(ed))
        digits == DigitsValue(ip \o fp, 0)
        exponent == IF ex # <<>> /\ ex[1] = 45 THEN 0 - DigitsValue(ed, 0)
                    ELSE DigitsValue(ed, 0)
    IN  IF ok
        THEN [ok |-> TRUE,
              m |-> IF t[1] = 45 THEN 0 - digits ELSE digits,
              e |-> exponent - Len(fp)]
        ELSE [ok |-> FALSE, m |-> 0, e |-> 0]

ascii_lower(s) == [i \in 1..Len(s) |-> IF s[i] \in 65..90 THEN s[i] + 32 ELSE s[i]]

\* The names of the infinities, compared without regard to ASCII case:
\* 1 for inf, +inf, infinity, +infinity; -1 for -inf, -infinity; else 0.
InfSign(text) ==
    LET w == ascii_lower(text)
    IN  IF w \in {<<105, 110, 102>>, <<43, 105, 110, 102>>,
                  <<105, 110, 102, 105, 110, 105, 116, 121>>,
                  <<43, 105, 110, 102, 105, 110, 105, 116, 121>>} THEN 1
        ELSE IF w \in {<<45, 105, 110, 102>>,
                       <<45, 105, 110, 102, 105, 110, 105, 116, 121>>} THEN 0 - 1
        ELSE 0

\* The boolean parser: 1 for "true", 0 for "false", compared without regard
\* to ASCII case; else -1.
to_boolean(text) ==
    LET w == ascii_lower(text)
    IN  IF w = <<116, 114, 117, 101>> THEN 1
        ELSE IF w = <<102, 97, 108, 115, 101>> THEN 0
        ELSE 0 - 1

\* The type read_csv gives one chunk of a column without a declared dtype:
\* the first of int64, float64, bool that accepts every cell of the chunk
\* that is not an NA text, else object. An int64 chunk with an NA cell is
\* stored as float64.
infer_dtype(cells) ==
    LET present == SelectSeq(cells, LAMBDA c : c \notin na_values)
        all(Accepts(_)) == \A i \in 1..Len(present) : Accepts(present[i])
    IN  IF all(IsInt64Text)
        THEN (IF Len(present) = Len(cells) THEN "int64" ELSE "float64")
        ELSE IF all(LAMBDA c : FloatParts(c).ok \/ InfSign(c) # 0) THEN "float64"
        ELSE IF all(LAMBDA c : to_boolean(c) # 0 - 1) THEN "bool"
        ELSE "object"

\* The value of a cell of a chunk of that type.
LoadCell(dtype, text) ==
    IF text \in na_values THEN RawNull
    ELSE IF dtype = "int64" THEN RawInt(FloatParts(text).m)
    ELSE IF dtype = "float64"
         THEN (IF FloatParts(text).ok
               THEN RawFloat(FloatParts(text).m, FloatParts(text).e)
               ELSE RawInf(InfSign(text)))
    ELSE IF dtype = "bool" THEN RawBool(to_boolean(text) = 1)
    ELSE RawStr(text)

\* list(s): the sequence s, evaluated once
list(s) == s \o <<>>

Range(s) == {s[i] : i \in 1..Len(s)}

\* Series.unique(): the distinct values in order of first appearance (NaN is
\* one of the values).
unique(s) ==
    LET v == list(s)
        first == {CHOOSE i \in 1..Len(v) :
                      v[i] = x /\ \A j \in 1..(i - 1) : v[j] # x : x \in Range(v)}
        kept == SelectSeq([i \in 1..Len(v) |-> i], LAMBDA i : i \in first)
    IN  list([k \in 1..Len(kept) |-> v[kept[k]]])

PairLess(a, b) == StrLess(a[1], b[1]) \/ (a[1] = b[1] /\ StrLess(a[2], b[2]))

\* groupby(...) orders its groups by key: the distinct keys in ascending
\* order.
SortStrs(keys) == SortSeq(unique(keys), StrLess)

SortPairs(keys) == SortSeq(unique(keys), PairLess)

\* sorted(list) of strings (insertion sort; equal strings are identical)
RECURSIVE sorted(_)
sorted(l) ==
    IF l = <<>> THEN <<>>
    ELSE LET rest == sorted(Tail(l))
             k == Cardinality({i \in 1..Len(rest) : StrLess(rest[i], Head(l))})
         IN  SubSeq(rest, 1, k) \o <<Head(l)>> \o SubSeq(rest, k + 1, Len(rest))

\* list(itertools.combinations(l, 2))
combinations2(l) ==
    LET idx == {<<i, j>> \in (1..Len(l)) \X (1..Len(l)) : i < j}
        F[n \in 0..(Len(l) * Len(l))] ==
            IF n = 0 THEN <<>>
            ELSE LET i == ((n - 1) \div Len(l)) + 1
                     j == ((n - 1) % Len(l)) + 1
                 IN  IF <<i, j>> \in idx THEN Append(F[n - 1], <<l[i], l[j]>>)
                     ELSE F[n - 1]
    IN  F[Len(l) * Len(l)]

\* The result shapes
ErrorResult(text) == [error |-> text, nodes |-> <<>>, links |-> <<>>]
SuccessResult(nodes, links) == [nodes |-> nodes, links |-> links]

(***************************************************************************)
(* generate_citation_network                                               *)
(*                                                                         *)
(* A row of the CSV is [citing_paperid, cited_paperid, year, ref_year]:    *)
(* two cell texts and two optional integers (<<>> = an empty cell).        *)
(***************************************************************************)
refs_csv_path == "refs_yeshiva_cs_20_25.csv"
institution == "Yeshiva University, Computer Science Department"

\* pd.read_csv(..., dtype={"year": int, "ref_year": int}) raises ValueError
\* when an integer column has a missing value.
read_refs_raises(rows) ==
    \E i \in 1..Len(rows) : rows[i].year = <<>> \/ rows[i].ref_year = <<>>

read_refs(rows) ==
    [i \in 1..Len(rows) |->
        [citing_paperid |-> LoadStr(rows[i].citing_paperid),
         cited_paperid |-> LoadStr(rows[i].cited_paperid),
         year |-> rows[i].year,
         ref_year |-> rows[i].ref_year]]

refs_complete(r) ==
    /\ r.citing_paperid # <<>> /\ r.cited_paperid # <<>>
    /\ r.year # <<>> /\ r.ref_year # <<>>

\* Mutant: the upper end of the year window is exclusive.
citation_df_clean_exclusive(df) ==
    SelectSeq(SelectSeq(df, refs_complete),
              LAMBDA r : r.year[1] >= 2020 /\ r.year[1] < 2025)

\* df.dropna(subset=[...]) then the year window
citation_df_clean(df) ==
    SelectSeq(SelectSeq(df, refs_complete),
              LAMBDA r : r.year[1] >= 2020 /\ r.year[1] <= 2025)

\* Mutant: the ids are concatenated and never deduplicated.
citation_all_paper_ids_concat(df_clean) ==
    [i \in 1..Len(df_clean) |-> df_clean[i].citing_paperid]
    \o [i \in 1..Len(df_clean) |-> df_clean[i].cited_paperid]

\* pd.concat([citing, cited]).unique()
citation_all_paper_ids(df_clean) ==
    unique([i \in 1..Len(df_clean) |-> df_clean[i].citing_paperid]
           \o [i \in 1..Len(df_clean) |-> df_clean[i].cited_paperid])

\* Mutant: the year is taken from the last matching record.
citation_publish_year_last(df_clean, cell) ==
    LET citing_records == SelectSeq(df_clean, LAMBDA r : r.citing_paperid = cell)
        cited_records == SelectSeq(df_clean, LAMBDA r : r.cited_paperid = cell)
    IN  IF citing_records # <<>> THEN citing_records[Len(citing_records)].year[1]
        ELSE IF cited_records # <<>> THEN cited_records[Len(cited_records)].ref_year[1]
        ELSE "Unknown"

citation_publish_year(df_clean, cell) ==
    LET citing_records == SelectSeq(df_clean, LAMBDA r : r.citing_paperid = cell)
        cited_records == SelectSeq(df_clean, LAMBDA r : r.cited_paperid = cell)
    IN  IF citing_records # <<>> THEN citing_records[1].year[1]
        ELSE IF cited_records # <<>> THEN cited_records[1].ref_year[1]
        ELSE "Unknown"

citation_node(df_clean, cell) ==
    LET cited_records == SelectSeq(df_clean, LAMBDA r : r.cited_paperid = cell)
    IN  [id |-> cell[1],
         name |-> S_Paper_ \o cell[1],
         publish_year |-> citation_publish_year(df_clean, cell),
         citation_count |-> Len(cited_records),
         institution |-> institution]

citation_nodes(df_clean) ==
    LET all_paper_ids == citation_all_paper_ids(df_clean)
    IN  [i \in 1..Len(all_paper_ids) |-> citation_node(df_clean, all_paper_ids[i])]

\* Mutant: every link counts one citation.
citation_link_single(df_clean, nodes, key) ==
    LET citing_year == SelectSeq(df_clean, LAMBDA r : r.citing_paperid = <<key[2]>>)[1].year[1]
        cited_year == SelectSeq(df_clean, LAMBDA r : r.cited_paperid = <<key[1]>>)[1].ref_year[1]
    IN  [source |-> key[1], target |-> key[2], value |-> 1,
         citing_year |-> citing_year, cited_year |-> cited_year,
         year_diff |-> citing_year - cited_year]

\* One row of link_groups, key = <<cited_id, citing_id>>
citation_link(df_clean, nodes, key) ==
    LET cite_times == Len(SelectSeq(df_clean, LAMBDA r : r.cited_paperid = <<key[1]>>
                                                /\ r.citing_paperid = <<key[2]>>))
        citing_year == SelectSeq(df_clean, LAMBDA r : r.citing_paperid = <<key[2]>>)[1].year[1]
        cited_year == SelectSeq(df_clean, LAMBDA r : r.cited_paperid = <<key[1]>>)[1].ref_year[1]
    IN  [source |-> key[1], target |-> key[2], value |-> cite_times,
         citing_year |-> citing_year, cited_year |-> cited_year,
         year_diff |-> citing_year - cited_year]

\* df_clean.groupby(["cited_paperid", "citing_paperid"]) and the loop over it
citation_links(df_clean, nodes) ==
    LET link_groups == SortPairs([i \in 1..Len(df_clean) |->
                                        <<df_clean[i].cited_paperid[1], df_clean[i].citing_paperid[1]>>])
        guarded == SelectSeq(link_groups,
                             LAMBDA k : /\ \E n \in 1..Len(nodes) : nodes[n].id = k[1]
                                        /\ \E n \in 1..Len(nodes) : nodes[n].id = k[2])
    IN  [i \in 1..Len(guarded) |-> citation_link(df_clean, nodes, guarded[i])]

generate_citation_network(file) ==
    IF ~file.exists
    THEN ErrorResult(<<"The CSV file for the citation network could not be found. Please check the path: ",
                       refs_csv_path>>)
    ELSE IF read_refs_raises(file.rows)
    THEN ErrorResult(<<"Data processing failed: ", "Integer column has NA values">>)
    ELSE LET df_clean == citation_df_clean(read_refs(file.rows))
             nodes == citation_nodes(df_clean)
         IN  SuccessResult(nodes, citation_links(df_clean, nodes))

(***************************************************************************)
(* generate_enhanced_citation_network (a separate copy of the pipeline in  *)
(* the source, translated separately)                                      *)
(***************************************************************************)
\* Mutant: the enhanced copy keeps the citing years up to 2024 only.
enhanced_df_clean_2024(df) ==
    SelectSeq(SelectSeq(df, refs_complete),
              LAMBDA r : r.year[1] >= 2020 /\ r.year[1] <= 2024)

enhanced_df_clean(df) ==
    SelectSeq(SelectSeq(df, refs_complete),
              LAMBDA r : r.year[1] >= 2020 /\ r.year[1] <= 2025)

enhanced_all_paper_ids(df_clean) ==
    unique([i \in 1..Len(df_clean) |-> df_clean[i].citing_paperid]
           \o [i \in 1..Len(df_clean) |-> df_clean[i].cited_paperid])

enhanced_node(df_clean, cell) ==
    LET citing_records == SelectSeq(df_clean, LAMBDA r : r.citing_paperid = cell)
        cited_records == SelectSeq(df_clean, LAMBDA r : r.cited_paperid = cell)
        publish_year ==
            IF citing_records # <<>> THEN citing_records[1].year[1]
            ELSE IF cited_records # <<>> THEN cited_records[1].ref_year[1]
            ELSE "Unknown"
        citation_count == Len(cited_records)
    IN  [id |-> cell[1],
         name |-> S_Paper_ \o cell[1],
         publish_year |-> publish_year,
         citation_count |-> citation_count,
         institution |-> institution,
         topic |-> "Computer Science",
         impact_score |-> citation_count * 8 + 20]      \* tenths

enhanced_nodes(df_clean) ==
    LET all_paper_ids == enhanced_all_paper_ids(df_clean)
    IN  [i \in 1..Len(all_paper_ids) |-> enhanced_node(df_clean, all_paper_ids[i])]

enhanced_link(df_clean, nodes, key) ==
    LET cite_times == Len(SelectSeq(df_clean, LAMBDA r : r.cited_paperid = <<key[1]>>
                                                /\ r.citing_paperid = <<key[2]>>))
        citing_year == SelectSeq(df_clean, LAMBDA r : r.citing_paperid = <<key[2]>>)[1].year[1]
        cited_year == SelectSeq(df_clean, LAMBDA r : r.cited_paperid = <<key[1]>>)[1].ref_year[1]
    IN  [source |-> key[1], target |-> key[2], value |-> cite_times,
         citing_year |-> citing_year, cited_year |-> cited_year,
         year_diff |-> citing_year - cited_year]

enhanced_links(df_clean, nodes) ==
    LET link_groups == SortPairs([i \in 1..Len(df_clean) |->
                                        <<df_clean[i].cited_paperid[1], df_clean[i].citing_paperid[1]>>])
        guarded == SelectSeq(link_groups,
                             LAMBDA k : /\ \E n \in 1..Len(nodes) : nodes[n].id = k[1]
                                        /\ \E n \in 1..Len(nodes) : nodes[n].id = k[2])
    IN  [i \in 1..Len(guarded) |-> enhanced_link(df_clean, nodes, guarded[i])]

generate_enhanced_citation_network(file) ==
    IF ~file.exists
    THEN ErrorResult(<<"The CSV file for the citation network could not be found. Please check the path: ",
                       refs_csv_path>>)
    ELSE IF read_refs_raises(file.rows)
    THEN ErrorResult(<<"Data processing failed: ", "Integer column has NA values">>)
    ELSE LET df_clean == enhanced_df_clean(read_refs(file.rows))
             nodes == enhanced_nodes(df_clean)
         IN  SuccessResult(nodes, enhanced_links(df_clean, nodes))


(***************************************************************************)
(* generate_collaboration_network                                          *)
(*                                                                         *)
(* A row of the CSV is [paperid, authorid, author_position]: three cell    *)
(* texts. (institutionid is read and never used; two rows of one author on *)
(* one paper differ in it.)                                                *)
(***************************************************************************)
affils_csv_path == "affils_yeshiva_cs_20_25.csv"

sample_size == 1000

Min2(a, b) == IF a < b THEN a ELSE b

\* read_csv (low_memory=True, its default) parses the file buffer_lines rows
\* at a time: the largest power of two below 2^20 // table_width, here for
\* the four columns of the file.
buffer_lines == 131072

\* The type of a column put together from its chunks: the chunks' type when
\* they agree, float64 for int64 beside float64, else object.
concat_dtype(dtypes) ==
    IF Cardinality(Range(dtypes)) = 1 THEN dtypes[1]
    ELSE IF Range(dtypes) \subseteq {"int64", "float64"} THEN "float64"
    ELSE "object"

\* A cell of a chunk in the column put together: an int of a float64 column
\* is the float of the same value; in an object column every cell keeps the
\* value its chunk gave it.
concat_cell(dtype, v) ==
    IF dtype = "float64" /\ v.t = "int" THEN RawFloat(v.n, 0) ELSE v

\* pd.read_csv(..., dtype={"paperid": str, "authorid": str, ...}): the ids
\* are str cells; author_position gets, chunk by chunk, the type read_csv
\* infers for the chunk, and the chunks are concatenated.
read_affils(rows) ==
    LET chunks == (Len(rows) + buffer_lines - 1) \div buffer_lines
        cells(c) == [i \in 1..Min2(buffer_lines, Len(rows) - (c - 1) * buffer_lines) |->
                        rows[(c - 1) * buffer_lines + i].author_position]
        dtypes == list([c \in 1..chunks |-> infer_dtype(list(cells(c)))])
        dtype == concat_dtype(dtypes)
    IN  list([i \in 1..Len(rows) |->
                [paperid |-> LoadStr(rows[i].paperid),
                 authorid |-> LoadStr(rows[i].authorid),
                 author_position |->
                     concat_cell(dtype,
                                 LoadCell(dtypes[((i - 1) \div buffer_lines) + 1],
                                          rows[i].author_position))]])

\* if len(affils_df) > sample_size: keep the rows of unique()[:sample_size]
collaboration_sample(affils_df) ==
    IF Len(affils_df) > sample_size
    THEN LET all_papers == unique([i \in 1..Len(affils_df) |-> affils_df[i].paperid])
             unique_papers == Range(SubSeq(all_papers, 1,
                                           Min2(Len(all_papers), sample_size)))
         IN  SelectSeq(affils_df, LAMBDA r : r.paperid \in unique_papers)
    ELSE affils_df

\* .apply(clean_author_position) raises when one call raises
apply_clean_raises(affils_df) ==
    \E i \in 1..Len(affils_df) :
        clean_author_position(affils_df[i].author_position).exc # <<>>

\* the column author_position_clean, dropna, and the blank-id filter
collaboration_df_clean(affils_df) ==
    LET with_clean ==
            [i \in 1..Len(affils_df) |->
                [paperid |-> affils_df[i].paperid,
                 authorid |-> affils_df[i].authorid,
                 author_position_clean |->
                     clean_author_position(affils_df[i].author_position).ret]]
        dropped == SelectSeq(with_clean,
                             LAMBDA r : /\ r.paperid # <<>> /\ r.authorid # <<>>
                                        /\ r.author_position_clean # <<>>)
    IN  SelectSeq(dropped,
                  LAMBDA r : strip(r.paperid[1]) # <<>> /\ strip(r.authorid[1]) # <<>>)

\* groupby("authorid")["paperid"].nunique(), read at one author
nunique_papers(df, author) ==
    Cardinality({df[i].paperid[1] :
                    i \in {k \in 1..Len(df) : df[k].authorid[1] = author}})

collaboration_node(df_clean, author_id) ==
    LET papers_published == nunique_papers(df_clean, author_id)
        first_rows == SelectSeq(df_clean, LAMBDA r : r.author_position_clean = <<1>>)
        corr_rows == SelectSeq(df_clean, LAMBDA r : r.author_position_clean = <<0 - 1>>)
    IN  [id |-> author_id,
         name |-> S_Author_ \o author_id,
         department |-> institution,
         papers_published |-> papers_published,
         first_author_papers |-> nunique_papers(first_rows, author_id),
         corr_author_papers |-> nunique_papers(corr_rows, author_id),
         h_index |-> Min2(papers_published, 15)]

\* author_attrs (ordered by authorid by the groupby) and the node loop
collaboration_nodes(df_clean) ==
    LET authors == SortStrs([i \in 1..Len(df_clean) |-> df_clean[i].authorid[1]])
        author_attrs == SelectSeq(authors,
                                  LAMBDA a : nunique_papers(df_clean, a) >= 0)
    IN  [i \in 1..Len(author_attrs) |-> collaboration_node(df_clean, author_attrs[i])]

\* paper_authors: per paper (ordered by paperid) the list of its rows' authors
paper_authors(df_clean) ==
    LET papers == SortStrs([i \in 1..Len(df_clean) |-> df_clean[i].paperid[1]])
    IN  [p \in 1..Len(papers) |->
            LET rows == SelectSeq(df_clean, LAMBDA r : r.paperid[1] = papers[p])
            IN  [paperid |-> papers[p],
                 authors |-> [i \in 1..Len(rows) |-> rows[i].authorid[1]]]]

\* the pairs of one paper
paper_pairs(row) ==
    LET authors == sorted(row.authors)
    IN  IF Len(authors) >= 2 THEN combinations2(authors) ELSE <<>>

\* the concatenation of the lists of ss
RECURSIVE Flatten(_)
Flatten(ss) ==
    IF Len(ss) = 0 THEN <<>>
    ELSE IF Len(ss) = 1 THEN ss[1]
    ELSE LET half == Len(ss) \div 2
         IN  Flatten(SubSeq(ss, 1, half)) \o Flatten(SubSeq(ss, half + 1, Len(ss)))

collaboration_pairs(df_clean) ==
    LET pa == paper_authors(df_clean)
    IN  Flatten(list([p \in 1..Len(pa) |-> paper_pairs(pa[p])]))

\* pd.DataFrame(collaboration_pairs).groupby([...]) raises KeyError when the
\* list is empty: the frame then has no columns.
collaboration_counts_raises(pairs) == pairs = <<>>

collaboration_links(pairs, nodes) ==
    LET collaboration_counts == SortPairs(pairs)
        node_ids == {nodes[n].id : n \in 1..Len(nodes)}
        guarded == SelectSeq(collaboration_counts,
                             LAMBDA k : k[1] \in node_ids /\ k[2] \in node_ids)
    IN  [i \in 1..Len(guarded) |->
            LET collab_times == Cardinality({j \in 1..Len(pairs) : pairs[j] = guarded[i]})
            IN  [source |-> guarded[i][1], target |-> guarded[i][2],
                 value |-> collab_times, co_authored_papers |-> collab_times]]

\* Mutant: a failure after the nodes were built returns them with the error.
collaboration_graph_partial(sampled) ==
    IF apply_clean_raises(sampled)
    THEN ErrorResult(<<"Author collaboration network data processing failed:",
                       "cannot convert float infinity to integer">>)
    ELSE LET df_clean == collaboration_df_clean(sampled)
             nodes == collaboration_nodes(df_clean)
             pairs == collaboration_pairs(df_clean)
         IN  IF collaboration_counts_raises(pairs)
             THEN [error |-> <<"Author collaboration network data processing failed:",
                               "'source_author'">>,
                   nodes |-> nodes, links |-> <<>>]
             ELSE SuccessResult(nodes, collaboration_links(pairs, nodes))

\* The body of the try block from the sampled frame on. (The source's
\* messages end in a full-width colon, written ":" here.)
collaboration_graph(sampled) ==
    IF apply_clean_raises(sampled)
    THEN ErrorResult(<<"Author collaboration network data processing failed:",
                       "cannot convert float infinity to integer">>)
    ELSE LET df_clean == collaboration_df_clean(sampled)
             nodes == collaboration_nodes(df_clean)
             pairs == collaboration_pairs(df_clean)
         IN  IF collaboration_counts_raises(pairs)
             THEN ErrorResult(<<"Author collaboration network data processing failed:",
                                "'source_author'">>)
             ELSE SuccessResult(nodes, collaboration_links(pairs, nodes))

generate_collaboration_network(file) ==
    IF ~file.exists
    THEN ErrorResult(<<"The CSV file for the author collaboration network could not be found.:",
                       affils_csv_path>>)
    ELSE collaboration_graph(collaboration_sample(read_affils(file.rows)))

(***************************************************************************)
(* Inputs                                                                  *)
(***************************************************************************)
MaxRefsRows == 2
MaxIncompleteRefsRows == 2
MaxAffilRows == 3
MaxDirtyAffilRows == 2
MaxExtraPapers == 1

SeqsUpTo(S, n) == UNION {[1..k -> S] : k \in 0..n}

\* Citation rows with every cell present; the years straddle both ends of
\* the window.
CompleteRefsRows ==
    [citing_paperid : {S_9, S_10}, cited_paperid : {S_9, S_10},
     year : {<<2019>>, <<2020>>, <<2025>>, <<2026>>},
     ref_year : {<<2018>>, <<2021>>}]

\* Citation rows in which any cell may be missing.
IncompleteRefsRows ==
    [citing_paperid : {S_9, <<>>}, cited_paperid : {S_10, <<110, 47, 97>>},
     year : {<<2020>>, <<>>}, ref_year : {<<2018>>, <<>>}]

\* Affiliation rows with every cell usable.
CleanAffilRows ==
    [paperid : {S_1, S_2}, authorid : {S_9, S_10}, author_position : {S_1, S_last}]

\* Affiliation rows of paper 1: the two clean ones, and rows with one
\* unusable cell (a missing or blank id, a position that resolves to None or
\* makes the resolver raise), and rows whose position sets the column's type.
DirtyAffilRows ==
    {[paperid |-> S_1, authorid |-> a, author_position |-> S_1] : a \in {S_9, S_10}}
    \cup {[paperid |-> p, authorid |-> S_10, author_position |-> S_1] :
            p \in {<<>>, <<32>>}}
    \cup {[paperid |-> S_1, authorid |-> a, author_position |-> S_1] :
            a \in {<<110, 47, 97>>, <<160>>}}
    \cup {[paperid |-> S_1, authorid |-> S_10, author_position |-> q] :
            q \in {S_unknown, <<>>, S_inf, <<28, 49>>, <<50, 46, 55>>, S_tRuE}}

RECURSIVE IntToStr(_)
IntToStr(n) == IF n < 10 THEN <<48 + n>> ELSE Append(IntToStr(n \div 10), 48 + (n % 10))

\* Tables of more than sample_size rows: papers 1..papers in order, each
\* with author 9, the first and the last also with author 10; possibly
\* headed by a row whose paperid cell is empty.
LargeTable(papers, headed) ==
    LET row(p, a, q) == [paperid |-> p, authorid |-> a, author_position |-> q]
        body == Flatten([i \in 1..papers |->
                            IF i \in {1, papers}
                            THEN <<row(IntToStr(i), S_9, S_1), row(IntToStr(i), S_10, S_2)>>
                            ELSE <<row(IntToStr(i), S_9, S_1)>>])
    IN  IF headed THEN <<row(<<>>, S_9, S_1)>> \o body ELSE body

LargeTables ==
    {LargeTable(sample_size + k, h) : k \in 0..MaxExtraPapers, h \in BOOLEAN}

\* Tables of more than buffer_lines rows: a first chunk of rows without a
\* paperid whose positions are one text and else empty cells, then the rows
\* of paper 1 with the positions given, read as the second chunk.
ChunkedTable(positions) ==
    LET row(p, a, q) == [paperid |-> p, authorid |-> a, author_position |-> q]
    IN  [i \in 1..buffer_lines |->
            IF i = 1 THEN row(<<>>, S_9, S_unknown) ELSE row(<<>>, S_9, <<>>)]
        \o <<row(S_1, S_9, positions[1]), row(S_1, S_10, positions[2])>>

ChunkedTables ==
    {ChunkedTable(q) : q \in {<<<<50, 46, 55>>, S_1>>, <<S_1, S_inf>>, <<S_1, S_last>>}}

\* Raw author positions
RawPositions ==
    {RawNull, RawInf(1), RawInf(0 - 1), RawBool(TRUE), RawBool(FALSE)}
    \cup {RawInt(n) : n \in {0 - 1, 0, 1, 3}}
    \cup {RawFloat(10, 0 - 1), RawFloat(27, 0 - 1), RawFloat(0 - 15, 0 - 1), RawFloat(3, 0),
          RawFloat(1, 2), RawFloat(5, 0 - 12)}
    \cup {RawStr(s) : s \in {S_1, <<32, 49, 32>>, <<45, 49>>, <<43, 50>>, <<49, 95, 48>>,
                             <<49, 95>>, <<50, 46, 55>>, <<>>, S_inf,
                             <<28, 49>>, <<49, 31>>, <<160, 49>>, <<1633>>, <<65297, 1632>>,
                             <<49, 92867>>,
                             [i \in 1..(max_str_digits + 1) |-> 49],
                             S_middle, S_mid, <<32, 77, 105, 100, 32>>, <<160, 109, 105, 100>>,
                             S_last, <<76, 65, 83, 84>>, <<12288, 108, 97, 115, 116>>,
                             S_corresponding, S_corr, <<133, 99, 111, 114, 114>>,
                             S_unknown}}

Absent == [exists |-> FALSE, rows |-> <<>>]
File(rows) == [exists |-> TRUE, rows |-> rows]

InitRefs ==
    /\ refs_csv \in {File(t) : t \in SeqsUpTo(CompleteRefsRows, MaxRefsRows)
                                    \cup SeqsUpTo(IncompleteRefsRows, MaxIncompleteRefsRows)}
    /\ affils_csv = Absent
    /\ position = RawNull

InitAffils ==
    /\ refs_csv = Absent
    /\ affils_csv \in {File(t) : t \in SeqsUpTo(CleanAffilRows, MaxAffilRows)
                                      \cup SeqsUpTo(DirtyAffilRows, MaxDirtyAffilRows)
                                      \cup LargeTables \cup ChunkedTables}
    /\ position = RawNull

InitPosition ==
    /\ refs_csv = Absent
    /\ affils_csv = Absent
    /\ position \in RawPositions

Init ==
    /\ last_call = "none"
    /\ result = <<>>
    /\ (InitRefs \/ InitAffils \/ InitPosition)

(***************************************************************************)
(* Operations                                                              *)
(***************************************************************************)
get_citation_network ==
    /\ last_call' = "citation"
    /\ result' = <<generate_citation_network(refs_csv)>>
    /\ UNCHANGED <<refs_csv, affils_csv, position>>

get_collaboration_network ==
    /\ last_call' = "collaboration"
    /\ result' = <<generate_collaboration_network(affils_csv)>>
    /\ UNCHANGED <<refs_csv, affils_csv, position>>

get_enhanced_citation_network ==
    /\ last_call' = "enhanced"
    /\ result' = <<generate_enhanced_citation_network(refs_csv)>>
    /\ UNCHANGED <<refs_csv, affils_csv, position>>

call_clean_author_position ==
    /\ last_call' = "clean_author_position"
    /\ result' = <<clean_author_position(position)>>
    /\ UNCHANGED <<refs_csv, affils_csv, position>>

Next ==
    \/ get_citation_network
    \/ get_collaboration_network
    \/ get_enhanced_citation_network
    \/ call_clean_author_position

Spec == Init /\ [][Next]_vars

(***************************************************************************)
(* Properties                                                              *)
(***************************************************************************)
IsError(r) == "error" \in DOMAIN r
Called(op) == last_call = op /\ result # <<>>
Ids(nodes) == {nodes[i].id : i \in 1..Len(nodes)}

\* The citation table loads: the file is there and read_csv accepts it.
RefsLoads == refs_csv.exists /\ ~read_refs_raises(refs_csv.rows)

\* The retained rows, from the table as written: ids and years all present,
\* citing year within [2020, 2025].
Retained ==
    SelectSeq(refs_csv.rows,
              LAMBDA r : /\ r.citing_paperid \notin na_values
                         /\ r.cited_paperid \notin na_values
                         /\ r.year # <<>> /\ r.ref_year # <<>>
                         /\ r.year[1] >= 2020 /\ r.year[1] <= 2025)

RetainedIds ==
    {Retained[i].citing_paperid : i \in 1..Len(Retained)}
    \cup {Retained[i].cited_paperid : i \in 1..Len(Retained)}

\* C1: for a citation table that loads, generate_citation_network returns
\* exactly one node per id occurring as citing or cited id in a retained row,
\* no other node, and each node's citation_count is the number of retained
\* rows in which its id is the cited id.
C1_NodesOfRetained ==
    (Called("citation") /\ RefsLoads) =>
        LET r == result[1]
        IN  /\ ~IsError(r)
            /\ Ids(r.nodes) = RetainedIds
            /\ \A id \in RetainedIds :
                  Cardinality({i \in 1..Len(r.nodes) : r.nodes[i].id = id}) = 1
            /\ \A i \in 1..Len(r.nodes) :
                  r.nodes[i].citation_count =
                      Len(SelectSeq(Retained, LAMBDA row : row.cited_paperid = r.nodes[i].id))

\* C1 witness: a call on a table with a row inside and a row outside the
\* year window, answered with nodes.
C1_Witness ==
    /\ Called("citation") /\ RefsLoads
    /\ Len(Retained) >= 1 /\ Len(Retained) < Len(refs_csv.rows)
    /\ \E i \in 1..Len(result[1].nodes) : result[1].nodes[i].citation_count >= 1

RetainedPairs ==
    {<<Retained[i].cited_paperid, Retained[i].citing_paperid>> : i \in 1..Len(Retained)}

\* C2: for a citation table that loads, generate_citation_network emits
\* exactly one link per distinct (cited, citing) pair of the retained rows,
\* source the cited id and target the citing id, value the number of retained
\* rows with that pair, year_diff = citing_year - cited_year.
C2_LinksOfRetained ==
    (Called("citation") /\ RefsLoads) =>
        LET r == result[1]
        IN  /\ ~IsError(r)
            /\ {<<r.links[i].source, r.links[i].target>> : i \in 1..Len(r.links)}
                   = RetainedPairs
            /\ Len(r.links) = Cardinality(RetainedPairs)
            /\ \A i \in 1..Len(r.links) :
                  /\ r.links[i].value =
                        Len(SelectSeq(Retained, LAMBDA row : /\ row.cited_paperid = r.links[i].source
                                                           /\ row.citing_paperid = r.links[i].target))
                  /\ r.links[i].year_diff = r.links[i].citing_year - r.links[i].cited_year

\* C2 witness: a link that aggregates two retained rows.
C2_Witness ==
    /\ Called("citation") /\ RefsLoads
    /\ \E i \in 1..Len(result[1].links) :
          result[1].links[i].value = 2 /\ result[1].links[i].year_diff # 0

\* The cleaned affiliation rows of the table: the rows the builder keeps
\* after sampling and cleaning.
CleanedAffils == collaboration_df_clean(collaboration_sample(read_affils(affils_csv.rows)))

PapersOf(author) ==
    {CleanedAffils[i].paperid[1] :
        i \in {k \in 1..Len(CleanedAffils) : CleanedAffils[k].authorid[1] = author}}

\* C3 (as claimed): for every affiliation table, every collaboration link has
\* source < target lexicographically and value = co_authored_papers = the
\* number of distinct papers, among the cleaned rows, listing both authors.
C3_LinksCountDistinctPapers ==
    (Called("collaboration") /\ ~IsError(result[1])) =>
        \A i \in 1..Len(result[1].links) :
            LET l == result[1].links[i]
            IN  /\ StrLess(l.source, l.target)
                /\ l.value = l.co_authored_papers
                /\ l.value = Cardinality(PapersOf(l.source) \cap PapersOf(l.target))

CleanedAuthors == {CleanedAffils[i].authorid[1] : i \in 1..Len(CleanedAffils)}

PapersAt(author, pos) ==
    {CleanedAffils[i].paperid[1] :
        i \in {k \in 1..Len(CleanedAffils) :
                  /\ CleanedAffils[k].authorid[1] = author
                  /\ CleanedAffils[k].author_position_clean = <<pos>>}}

\* C4 (as claimed): for every affiliation table that loads, also when no
\* paper has two authors, the result has exactly one node per author id with
\* a cleaned row, with papers_published, first_author_papers,
\* corr_author_papers and h_index = min(papers_published, 15) as defined.
C4_AuthorNodes ==
    (Called("collaboration") /\ affils_csv.exists) =>
        LET nodes == result[1].nodes
        IN  /\ Ids(nodes) = CleanedAuthors
            /\ Len(nodes) = Cardinality(CleanedAuthors)
            /\ \A i \in 1..Len(nodes) :
                  /\ nodes[i].papers_published = Cardinality(PapersOf(nodes[i].id))
                  /\ nodes[i].first_author_papers = Cardinality(PapersAt(nodes[i].id, 1))
                  /\ nodes[i].corr_author_papers = Cardinality(PapersAt(nodes[i].id, 0 - 1))
                  /\ nodes[i].h_index = Min2(nodes[i].papers_published, 15)

Builders == {"citation", "collaboration", "enhanced"}

Contains(text, part) == \E i \in 1..Len(text) : text[i] = part

\* C5: a builder call returns a success result {nodes, links} without an
\* error key, or an error result whose nodes and links are both empty; when
\* the source table does not exist the result is the error shape and its text
\* contains the path searched.
C5_ResultOrEmptyError ==
    (last_call \in Builders /\ result # <<>>) =>
        LET r == result[1]
            file == IF last_call = "collaboration" THEN affils_csv ELSE refs_csv
            path == IF last_call = "collaboration" THEN affils_csv_path ELSE refs_csv_path
        IN  /\ DOMAIN r \in {{"nodes", "links"}, {"error", "nodes", "links"}}
            /\ IsError(r) => (r.nodes = <<>> /\ r.links = <<>>)
            /\ ~file.exists => (IsError(r) /\ Contains(r.error, path))

\* C5 witness: the collaboration builder met a failure after rows survived
\* cleaning, and answered with the error shape.
C5_Witness ==
    /\ Called("collaboration") /\ affils_csv.exists
    /\ CleanedAffils # <<>>
    /\ IsError(result[1]) /\ result[1].nodes = <<>>

\* C6: in every success result of a builder, node ids are pairwise distinct
\* and both ends of every link are ids of nodes of that result.
C6_GraphWellFormed ==
    (last_call \in Builders /\ result # <<>> /\ ~IsError(result[1])) =>
        LET r == result[1]
        IN  /\ \A i, j \in 1..Len(r.nodes) : r.nodes[i].id = r.nodes[j].id => i = j
            /\ \A k \in 1..Len(r.links) :
                  r.links[k].source \in Ids(r.nodes) /\ r.links[k].target \in Ids(r.nodes)

\* C6 witness: a citation graph in which a paper both cites and is cited, so
\* that its id reaches the node list from both columns.
C6_Witness ==
    /\ Called("citation") /\ ~IsError(result[1])
    /\ Len(result[1].nodes) = 2 /\ Len(result[1].links) = 2

\* The first sample_size distinct paper ids of the table, in input order.
FirstPaperIds(df) ==
    LET ids == unique(SelectSeq([i \in 1..Len(df) |-> df[i].paperid], LAMBDA c : c # <<>>))
    IN  Range(SubSeq(ids, 1, Min2(Len(ids), sample_size)))

DistinctPaperIds(df) == {df[i].paperid : i \in 1..Len(df)} \ {<<>>}

\* The rows the cap leaves, as claimed.
CappedAsClaimed(df) ==
    IF Cardinality(DistinctPaperIds(df)) > sample_size
    THEN LET first == FirstPaperIds(df)
         IN  SelectSeq(df, LAMBDA r : r.paperid \in first)
    ELSE df

\* C7 (as claimed): with more than sample_size distinct paper ids the graph
\* is built from the rows of the first sample_size distinct paper ids only;
\* with sample_size or fewer, the cap discards no row.
C7_SamplingCap ==
    (Called("collaboration") /\ affils_csv.exists) =>
        LET claimed == collaboration_graph(CappedAsClaimed(read_affils(affils_csv.rows)))
        IN  /\ IsError(result[1]) <=> IsError(claimed)
            /\ result[1].nodes = claimed.nodes
            /\ result[1].links = claimed.links

\* The resolution policy as claimed, for text.
PolicyOfText(s) ==
    IF IsIntLiteral(s) THEN <<IntOfStr(s)>>
    ELSE IF \E w \in {S_middle, S_mid} : lower_is(strip(s), w) THEN <<2>>
    ELSE IF \E w \in {S_last, S_corresponding, S_corr} : lower_is(strip(s), w) THEN <<0 - 1>>
    ELSE <<>>

\* C8 (as claimed): clean_author_position never raises; it returns an integer
\* or None for every raw input (null, integer, float including infinite
\* values, numeric string, free text), by the ordered policy.
C8_ResolverTotal ==
    Called("clean_author_position") =>
        /\ result[1].exc = <<>>
        /\ position.t = "null" => result[1].ret = <<>>
        /\ position.t = "int" => result[1].ret = <<position.n>>
        /\ position.t = "str" => result[1].ret = PolicyOfText(position.s)

\* The result of the base builder with the two enhanced fields added.
Enhanced(base) ==
    IF IsError(base) THEN base
    ELSE [nodes |-> [i \in 1..Len(base.nodes) |->
                        [id |-> base.nodes[i].id,
                         name |-> base.nodes[i].name,
                         publish_year |-> base.nodes[i].publish_year,
                         citation_count |-> base.nodes[i].citation_count,
                         institution |-> base.nodes[i].institution,
                         topic |-> "Computer Science",
                         impact_score |-> base.nodes[i].citation_count * 8 + 20]],
          links |-> base.links]

\* C9: the result of generate_enhanced_citation_network is the result of
\* generate_citation_network on the same table with topic and impact_score
\* added to each node: same nodes in the same order, same links, same
\* error/success outcome.
C9_EnhancedRefinesBase ==
    Called("enhanced") => result[1] = Enhanced(generate_citation_network(refs_csv))

\* C9 witness: an enhanced graph with a paper cited twice.
C9_Witness ==
    /\ Called("enhanced") /\ ~IsError(result[1])
    /\ \E i \in 1..Len(result[1].nodes) :
          result[1].nodes[i].citation_count = 2 /\ result[1].nodes[i].impact_score = 36

\* C10: a node's publish_year is the citing year of the first retained row
\* in which its id is the citing paper; failing that, the ref_year of the
\* first retained row in which it is the cited paper; failing that, "Unknown".
C10_PublishYear ==
    (Called("citation") /\ RefsLoads /\ ~IsError(result[1])) =>
        \A i \in 1..Len(result[1].nodes) :
            LET id == result[1].nodes[i].id
                citing == SelectSeq(Retained, LAMBDA row : row.citing_paperid = id)
                cited == SelectSeq(Retained, LAMBDA row : row.cited_paperid = id)
            IN  result[1].nodes[i].publish_year =
                    (IF citing # <<>> THEN citing[1].year[1]
                     ELSE IF cited # <<>> THEN cited[1].ref_year[1]
                     ELSE "Unknown")

\* C10 witness: one paper cites in two retained rows of different years, and
\* the other paper is only ever cited.
C10_Witness ==
    /\ Called("citation") /\ RefsLoads /\ Len(Retained) = 2
    /\ Retained[1].citing_paperid = Retained[2].citing_paperid
    /\ Retained[1].year # Retained[2].year
    /\ \E i \in 1..Len(result[1].nodes) :
          /\ result[1].nodes[i].id # Retained[1].citing_paperid
          /\ result[1].nodes[i].publish_year = Retained[1].ref_year[1]

====
